---- MODULE Spec2Model ----
(***************************************************************************)
(* Model of stheno/field.py: the element roles, the rewrite rules of mul   *)
(* and add selected by two-argument dispatch, structural equality, the     *)
(* structural term/factor queries, the pretty printer and the cache of     *)
(* the type resolver `new`.                                                *)
(***************************************************************************)
EXTENDS Integers, Sequences, FiniteSets, TLC

VARIABLES x, call, calls, new_cache, pc, key, cand, ret, done, loaded

vars == <<x, call, calls, new_cache, pc, key, cand, ret, done, loaded>>

(***************************************************************************)
(* Bounds of the model.                                                    *)
(***************************************************************************)
MaxCalls == 2
MaxScale == 6
MaxNewCalls == 2
MaxDepth == 3

(***************************************************************************)
(* Values.  A scalar is a Num; an element is a record carrying its role,   *)
(* the field of its concrete type and its children.  A raised exception    *)
(* is an Err value, which every caller passes on.                          *)
(***************************************************************************)
Num(v) == [role |-> "Number", v |-> v]
Err(kind) == [role |-> "Error", kind |-> kind]
Opaque(f, n) == [role |-> "Opaque", f |-> f, name |-> n]

IsErr(v) == v.role = "Error"
IsNumber(v) == v.role = "Number"
IsElement(v) == ~IsErr(v) /\ ~IsNumber(v)

(* The first exception among the values evaluated, in evaluation order. *)
FirstErr(vs) == LET bad == SelectSeq(vs, IsErr) IN IF bad = <<>> THEN Err("none") ELSE bad[1]
AnyErr(vs) == SelectSeq(vs, IsErr) # <<>>

(* Constructors: t is the concrete type that new resolved for the role. *)
ZeroOf(t) == IF IsErr(t) THEN t ELSE [role |-> "ZeroElement", f |-> t.f]
OneOf(t) == IF IsErr(t) THEN t ELSE [role |-> "OneElement", f |-> t.f]
ScaledOf(t, e, scale) ==
    IF AnyErr(<<t, e>>) THEN FirstErr(<<t, e>>)
    ELSE [role |-> "ScaledElement", f |-> t.f, e |-> e, scale |-> scale]
SumOf(t, e1, e2) ==
    IF AnyErr(<<t, e1, e2>>) THEN FirstErr(<<t, e1, e2>>)
    ELSE [role |-> "SumElement", f |-> t.f, e1 |-> e1, e2 |-> e2]
ProductOf(t, e1, e2) ==
    IF AnyErr(<<t, e1, e2>>) THEN FirstErr(<<t, e1, e2>>)
    ELSE [role |-> "ProductElement", f |-> t.f, e1 |-> e1, e2 |-> e2]

(***************************************************************************)
(* The class hierarchy the dispatcher sees: Supers(t) is t with all its    *)
(* ancestors.  An opaque element is an instance of a class of its field    *)
(* that derives from Element alone.                                        *)
(***************************************************************************)
Supers(t) ==
    CASE t = "object" -> {"object"}
      [] t = "Number" -> {"Number", "object"}
      [] t = "Element" -> {"Element", "object"}
      [] t = "Opaque" -> {"Opaque", "Element", "object"}
      [] t = "PrimitiveElement" -> {"PrimitiveElement", "Element", "object"}
      [] t = "OneElement" -> {"OneElement", "PrimitiveElement", "Element", "object"}
      [] t = "ZeroElement" -> {"ZeroElement", "PrimitiveElement", "Element", "object"}
      [] t = "WrappedElement" -> {"WrappedElement", "Element", "object"}
      [] t = "JoinElement" -> {"JoinElement", "Element", "object"}
      [] t = "ScaledElement" -> {"ScaledElement", "WrappedElement", "Element", "object"}
      [] t = "ProductElement" -> {"ProductElement", "JoinElement", "Element", "object"}
      [] t = "SumElement" -> {"SumElement", "JoinElement", "Element", "object"}

RuntimeTypes == {"Number", "Opaque", "OneElement", "ZeroElement", "ScaledElement",
                 "ProductElement", "SumElement"}

(***************************************************************************)
(* Dispatch.  A parameter is a set of types (a one-of-a-set declaration);  *)
(* a signature holds two parameters, a precedence and the rule it selects. *)
(***************************************************************************)
Sig(p1, p2, prec, rule) == [p1 |-> p1, p2 |-> p2, prec |-> prec, rule |-> rule]

ParamLeq(p, q) == \A t \in p : \E u \in q : u \in Supers(t)
SigLeq(s, t) == ParamLeq(s.p1, t.p1) /\ ParamLeq(s.p2, t.p2)
SigMatches(s, ta, tb) == ParamLeq({ta}, s.p1) /\ ParamLeq({tb}, s.p2)

(* The most specific matching signatures; precedence breaks a tie among them. *)
Resolve(registry, ta, tb) ==
    LET matching == {s \in registry : SigMatches(s, ta, tb)}
        best == {s \in matching :
                    ~\E s2 \in matching : SigLeq(s2, s) /\ ~SigLeq(s, s2)}
        top == {s \in best : \A s2 \in best : s2.prec <= s.prec}
    IN  IF matching = {} THEN "NotFound"
        ELSE IF Cardinality({<<s.p1, s.p2>> : s \in top}) = 1
             THEN (CHOOSE s \in top : TRUE).rule
             ELSE "Ambiguous"

mul_registry ==
    { Sig({"object"}, {"object"}, 0, "mul_object_object"),
      Sig({"Element"}, {"object"}, 0, "mul_Element_object"),
      Sig({"object"}, {"Element"}, 0, "mul_object_Element"),
      Sig({"Element"}, {"Element"}, 0, "mul_Element_Element"),
      Sig({"ZeroElement"}, {"object"}, 2, "mul_return_a"),
      Sig({"Element"}, {"OneElement"}, 2, "mul_return_a"),
      Sig({"object"}, {"ZeroElement"}, 2, "mul_return_b"),
      Sig({"OneElement"}, {"Element"}, 2, "mul_return_b"),
      Sig({"ZeroElement"}, {"ZeroElement"}, 2, "mul_same_primitive"),
      Sig({"OneElement"}, {"OneElement"}, 2, "mul_same_primitive"),
      Sig({"object"}, {"ScaledElement"}, 0, "mul_object_Scaled"),
      Sig({"ScaledElement"}, {"object"}, 0, "mul_Scaled_object"),
      Sig({"ScaledElement"}, {"Element"}, 0, "mul_Scaled_Element"),
      Sig({"Element"}, {"ScaledElement"}, 0, "mul_Element_Scaled"),
      Sig({"ScaledElement"}, {"ScaledElement"}, 0, "mul_Scaled_Scaled") }

add_registry ==
    { Sig({"object"}, {"object"}, 0, "add_object_object"),
      Sig({"Element"}, {"object"}, 0, "add_Element_object"),
      Sig({"object"}, {"Element"}, 0, "add_object_Element"),
      Sig({"Element"}, {"Element"}, 0, "add_Element_Element"),
      Sig({"Element"}, {"ZeroElement"}, 2, "add_Element_Zero"),
      Sig({"ZeroElement"}, {"Element"}, 2, "add_Zero_Element"),
      Sig({"ZeroElement"}, {"ZeroElement"}, 2, "add_Zero_Zero"),
      Sig({"ZeroElement"}, {"object"}, 0, "add_Zero_object"),
      Sig({"object"}, {"ZeroElement"}, 0, "add_object_Zero"),
      Sig({"ScaledElement"}, {"Element"}, 0, "add_Scaled_Element"),
      Sig({"Element"}, {"ScaledElement"}, 0, "add_Element_Scaled"),
      Sig({"ScaledElement"}, {"ScaledElement"}, 0, "add_Scaled_Scaled") }

equal_registry ==
    { Sig({"object"}, {"object"}, 0, "equal_object_object"),
      Sig({"PrimitiveElement"}, {"PrimitiveElement"}, 0, "equal_Primitive"),
      Sig({"SumElement"}, {"SumElement"}, 0, "equal_Join"),
      Sig({"ProductElement"}, {"ProductElement"}, 0, "equal_Join") }

need_parens_registry ==
    { Sig({"Element"}, {"SumElement"}, 0, "no_parens"),
      Sig({"Element"}, {"ProductElement"}, 0, "no_parens"),
      Sig({"SumElement", "WrappedElement"}, {"ProductElement"}, 0, "parens"),
      Sig({"ScaledElement"}, {"ProductElement"}, 0, "no_parens"),
      Sig({"Element"}, {"WrappedElement"}, 0, "no_parens"),
      Sig({"WrappedElement", "JoinElement"}, {"WrappedElement"}, 0, "parens"),
      Sig({"ProductElement", "ScaledElement"}, {"ScaledElement"}, 0, "no_parens") }

(* The rule each pair of runtime types selects, resolved when the module   *)
(* is loaded.                                                              *)
mul_dispatch == [ta \in RuntimeTypes, tb \in RuntimeTypes |-> Resolve(mul_registry, ta, tb)]
add_dispatch == [ta \in RuntimeTypes, tb \in RuntimeTypes |-> Resolve(add_registry, ta, tb)]
equal_dispatch == [ta \in RuntimeTypes, tb \in RuntimeTypes |-> Resolve(equal_registry, ta, tb)]

(***************************************************************************)
(* The classes.  A class is a record: a role class of field.py has field   *)
(* "-", the class of a field has role "Field", a concrete role type of a   *)
(* field has both, and an opaque element class has role "Opaque".  Fields  *)
(* "K" and "M" provide one type per role.  Field "P" is incomplete: it has *)
(* two Zero types and no One type.  "orphan" is an element class that was  *)
(* never registered with a field.                                          *)
(***************************************************************************)
Class(role, f, name) == [role |-> role, f |-> f, name |-> name]
RoleClass(r) == Class(r, "-", "")
FieldClass(f) == Class("Field", f, "")
Concrete(r, f) == Class(r, f, "")

Roles == {"ZeroElement", "OneElement", "ScaledElement", "SumElement", "ProductElement"}
RoleClasses == {RoleClass(r) : r \in Roles \cup {"Element", "PrimitiveElement",
                                                "WrappedElement", "JoinElement"}}
Fields == {"K", "M", "P"}
OpaqueClasses == {Class("Opaque", "K", "k1"), Class("Opaque", "K", "k2"),
                  Class("Opaque", "M", "m1"), Class("Opaque", "P", "p1"),
                  Class("Opaque", "-", "orphan")}
ConcreteClasses ==
    {Concrete(r, f) : r \in Roles, f \in {"K", "M"}}
    \cup {Concrete(r, "P") : r \in Roles \ {"OneElement"}}
    \cup {Class("ZeroElement", "P", "alt")}
Classes == RoleClasses \cup {FieldClass(f) : f \in Fields} \cup OpaqueClasses
           \cup ConcreteClasses

(* The direct base classes of a class (object left out). *)
Bases(c) ==
    CASE c.role = "Element" -> {}
      [] c.role = "Field" -> {RoleClass("Element")}
      [] c.role = "Opaque" -> IF c.f = "-" THEN {RoleClass("Element")} ELSE {FieldClass(c.f)}
      [] c.f = "-" -> {RoleClass(CHOOSE u \in Supers(c.role) \ {c.role} :
                                   \A w \in Supers(c.role) \ {c.role} : w \in Supers(u))}
      [] OTHER -> {FieldClass(c.f), RoleClass(c.role)}

(* c.__subclasses__() *)
direct_subclasses(c) == {d \in Classes : c \in Bases(d)}

RECURSIVE get_subclasses(_)
get_subclasses(c) ==
    direct_subclasses(c) \cup UNION {get_subclasses(sc) : sc \in direct_subclasses(c)}

(* type(a): the class an element is an instance of. *)
TypeOf(a) == IF a.role = "Opaque" \/ "name" \in DOMAIN a THEN a ELSE Concrete(a.role, a.f)

RECURSIVE Ancestors(_)
Ancestors(c) == Bases(c) \cup UNION {Ancestors(b) : b \in Bases(c)}

(* get_field, as each field registers it for its own class; the default   *)
(* raises.  field_of is the method per class once the fields are loaded.   *)
registered_field(fs) == IF fs = {} THEN Err("RuntimeError") ELSE CHOOSE b \in fs : TRUE

field_of ==
    [c \in OpaqueClasses \cup ConcreteClasses |->
        registered_field({b \in Ancestors(c) : b.role = "Field"})]

get_field(a) == loaded.field_of[TypeOf(a)]

(* The body of new on a cache miss: the types that are both of the field  *)
(* of a and of role t.                                                     *)
subclasses_of_field == [f \in Fields |-> get_subclasses(FieldClass(f))]
subclasses_of_role == [t \in Roles |-> get_subclasses(RoleClass(t))]

new_candidates(field, t) ==
    loaded.subclasses_of_field[field.f] \cap loaded.subclasses_of_role[t]

(* A check that lets several candidates through. *)
some_candidate(candidates) == Cardinality(candidates) >= 1

(* The check that guards the cache write: a single candidate. *)
single_candidate(candidates) == Cardinality(candidates) = 1

new_resolve(candidates) ==
    IF ~single_candidate(candidates) THEN Err("RuntimeError")
    ELSE CHOOSE c \in candidates : TRUE

new_in_field(field, t) ==
    IF IsErr(field) THEN field ELSE new_resolve(new_candidates(field, t))

new_lookup(a, t) == new_in_field(get_field(a), t)

(* new(a, t) as the rewrite rules use it: the type it returns.  A cache    *)
(* hit returns what the miss computed.                                     *)
new(a, t) == new_lookup(a, t)

(* The equality a field registers for its opaque classes: two instances   *)
(* of one class are equal.                                                 *)
field_equal(a, b) == a.f = b.f /\ a.name = b.name

(***************************************************************************)
(* Structural equality.                                                    *)
(***************************************************************************)
RECURSIVE equal(_, _)

(* A comparison of two Joins that misses the crossed pairing. *)
equal_Join_straight(a, b) == equal(a.e1, b.e1) /\ equal(a.e2, b.e2)

equal_Join(a, b) ==
    \/ equal(a.e1, b.e1) /\ equal(a.e2, b.e2)
    \/ equal(a.e1, b.e2) /\ equal(a.e2, b.e1)

equal_Primitive(a, b) == TypeOf(a) = TypeOf(b)

equal(a, b) ==
    IF a.role = "Opaque" /\ b.role = "Opaque" /\ a.f = b.f
    THEN field_equal(a, b)
    ELSE LET rule == loaded.equal_dispatch[a.role, b.role]
         IN  CASE rule = "equal_Primitive" -> equal_Primitive(a, b)
               [] rule = "equal_Join" -> equal_Join(a, b)
               [] OTHER -> FALSE

(***************************************************************************)
(* The rewrite rules of mul and add.                                       *)
(***************************************************************************)
RECURSIVE mul(_, _)

mul_Element_object(a, b) ==
    IF IsNumber(b) /\ b.v = 0 THEN ZeroOf(new(a, "ZeroElement"))
    ELSE IF IsNumber(b) /\ b.v = 1 THEN a
    ELSE ScaledOf(new(a, "ScaledElement"), a, b.v)

mul_object_Element(a, b) ==
    IF IsNumber(a) /\ a.v = 0 THEN ZeroOf(new(b, "ZeroElement"))
    ELSE IF IsNumber(a) /\ a.v = 1 THEN b
    ELSE ScaledOf(new(b, "ScaledElement"), b, a.v)

mul_Element_Element(a, b) == ProductOf(new(a, "ProductElement"), a, b)

mul_return_a(a, b) == a

mul_return_b(a, b) == b

mul_same_primitive(a, b) == a

mul_object_Scaled(a, b) == mul(Num(b.scale * a.v), b.e)

mul_Scaled_object(a, b) == mul(Num(a.scale * b.v), a.e)

mul_Scaled_Element(a, b) == mul(Num(a.scale), mul(a.e, b))

mul_Element_Scaled(a, b) == mul(Num(b.scale), mul(a, b.e))

mul_Scaled_Scaled(a, b) ==
    IF equal(a.e, b.e)
    THEN ScaledOf(new(a, "ScaledElement"), a.e, a.scale * b.scale)
    ELSE ProductOf(new(a, "ProductElement"),
                   ScaledOf(new(a, "ScaledElement"), a.e, a.scale * b.scale), b.e)

(* The methods of mul, by the name dispatch selects them with. *)
mul_method(rule, a, b) ==
    CASE rule = "mul_Element_object" -> mul_Element_object(a, b)
      [] rule = "mul_object_Element" -> mul_object_Element(a, b)
      [] rule = "mul_Element_Element" -> mul_Element_Element(a, b)
      [] rule = "mul_return_a" -> mul_return_a(a, b)
      [] rule = "mul_return_b" -> mul_return_b(a, b)
      [] rule = "mul_same_primitive" -> mul_same_primitive(a, b)
      [] rule = "mul_object_Scaled" -> mul_object_Scaled(a, b)
      [] rule = "mul_Scaled_object" -> mul_Scaled_object(a, b)
      [] rule = "mul_Scaled_Element" -> mul_Scaled_Element(a, b)
      [] rule = "mul_Element_Scaled" -> mul_Element_Scaled(a, b)
      [] rule = "mul_Scaled_Scaled" -> mul_Scaled_Scaled(a, b)
      [] rule = "mul_object_object" -> Err("NotImplementedError")
      [] rule = "Ambiguous" -> Err("AmbiguousLookupError")
      [] OTHER -> Err("NotFoundLookupError")

(* mul(a, b): an operand that raised is passed on, otherwise dispatch     *)
(* selects the method by the operands' types.                              *)
mul(a, b) ==
    IF IsErr(a) THEN a
    ELSE IF IsErr(b) THEN b
    ELSE mul_method(loaded.mul_dispatch[a.role, b.role], a, b)

add_Element_object(a, b) ==
    IF IsNumber(b) /\ b.v = 0 THEN a
    ELSE SumOf(new(a, "SumElement"), a, mul(b, OneOf(new(a, "OneElement"))))

add_object_Element(a, b) ==
    IF IsNumber(a) /\ a.v = 0 THEN b
    ELSE SumOf(new(b, "SumElement"), mul(a, OneOf(new(b, "OneElement"))), b)

add_Element_Element(a, b) ==
    IF equal(a, b) THEN mul(Num(2), a) ELSE SumOf(new(a, "SumElement"), a, b)

add_Element_Zero(a, b) == a

add_Zero_Element(a, b) == b

add_Zero_Zero(a, b) == a

add_Zero_object(a, b) ==
    IF IsNumber(b) /\ b.v = 0 THEN a
    ELSE IF IsNumber(b) /\ b.v = 1 THEN OneOf(new(a, "OneElement"))
    ELSE ScaledOf(new(a, "ScaledElement"), OneOf(new(a, "OneElement")), b.v)

add_object_Zero(a, b) ==
    IF IsNumber(a) /\ a.v = 0 THEN b
    ELSE IF IsNumber(a) /\ a.v = 1 THEN OneOf(new(b, "OneElement"))
    ELSE ScaledOf(new(b, "ScaledElement"), OneOf(new(b, "OneElement")), a.v)

add_Scaled_Element(a, b) ==
    IF equal(a.e, b) THEN mul(Num(a.scale + 1), b) ELSE SumOf(new(a, "SumElement"), a, b)

add_Element_Scaled(a, b) ==
    IF equal(a, b.e) THEN mul(Num(b.scale + 1), a) ELSE SumOf(new(a, "SumElement"), a, b)

(* A rule for two Scaled elements that never merges them. *)
add_Scaled_Scaled_unmerged(a, b) == SumOf(new(a, "SumElement"), a, b)

add_Scaled_Scaled(a, b) ==
    IF equal(a.e, b.e) THEN mul(Num(a.scale + b.scale), a.e)
    ELSE SumOf(new(a, "SumElement"), a, b)

(* The methods of add, by the name dispatch selects them with. *)
add_method(rule, a, b) ==
    CASE rule = "add_Element_object" -> add_Element_object(a, b)
      [] rule = "add_object_Element" -> add_object_Element(a, b)
      [] rule = "add_Element_Element" -> add_Element_Element(a, b)
      [] rule = "add_Element_Zero" -> add_Element_Zero(a, b)
      [] rule = "add_Zero_Element" -> add_Zero_Element(a, b)
      [] rule = "add_Zero_Zero" -> add_Zero_Zero(a, b)
      [] rule = "add_Zero_object" -> add_Zero_object(a, b)
      [] rule = "add_object_Zero" -> add_object_Zero(a, b)
      [] rule = "add_Scaled_Element" -> add_Scaled_Element(a, b)
      [] rule = "add_Element_Scaled" -> add_Element_Scaled(a, b)
      [] rule = "add_Scaled_Scaled" -> add_Scaled_Scaled(a, b)
      [] rule = "add_object_object" -> Err("NotImplementedError")
      [] rule = "Ambiguous" -> Err("AmbiguousLookupError")
      [] OTHER -> Err("NotFoundLookupError")

(* add(a, b): an operand that raised is passed on, otherwise dispatch     *)
(* selects the method by the operands' types.                              *)
add(a, b) ==
    IF IsErr(a) THEN a
    ELSE IF IsErr(b) THEN b
    ELSE add_method(loaded.add_dispatch[a.role, b.role], a, b)

(***************************************************************************)
(* The cache keys that evaluating mul(a, b) and add(a, b) looks up with    *)
(* new, rule by rule; the calls after a raised exception are not made.     *)
(***************************************************************************)
new_key(a, t) == <<TypeOf(a), t>>

RECURSIVE mul_new_keys(_, _)
mul_keys_method(rule, a, b) ==
    CASE rule = "mul_Element_object" ->
           IF b.v = 0 THEN {new_key(a, "ZeroElement")}
           ELSE IF b.v = 1 THEN {} ELSE {new_key(a, "ScaledElement")}
      [] rule = "mul_object_Element" ->
           IF a.v = 0 THEN {new_key(b, "ZeroElement")}
           ELSE IF a.v = 1 THEN {} ELSE {new_key(b, "ScaledElement")}
      [] rule = "mul_Element_Element" -> {new_key(a, "ProductElement")}
      [] rule = "mul_object_Scaled" -> mul_new_keys(Num(b.scale * a.v), b.e)
      [] rule = "mul_Scaled_object" -> mul_new_keys(Num(a.scale * b.v), a.e)
      [] rule = "mul_Scaled_Element" ->
           mul_new_keys(a.e, b) \cup mul_new_keys(Num(a.scale), mul(a.e, b))
      [] rule = "mul_Element_Scaled" ->
           mul_new_keys(a, b.e) \cup mul_new_keys(Num(b.scale), mul(a, b.e))
      [] rule = "mul_Scaled_Scaled" ->
           IF equal(a.e, b.e) THEN {new_key(a, "ScaledElement")}
           ELSE {new_key(a, "ScaledElement"), new_key(a, "ProductElement")}
      [] OTHER -> {}

mul_new_keys(a, b) ==
    IF IsErr(a) \/ IsErr(b) THEN {}
    ELSE mul_keys_method(loaded.mul_dispatch[a.role, b.role], a, b)

add_keys_method(rule, a, b) ==
    CASE rule = "add_Element_object" ->
           IF b.v = 0 THEN {}
           ELSE {new_key(a, "SumElement"), new_key(a, "OneElement")}
                \cup mul_new_keys(b, OneOf(new(a, "OneElement")))
      [] rule = "add_object_Element" ->
           IF a.v = 0 THEN {}
           ELSE {new_key(b, "SumElement"), new_key(b, "OneElement")}
                \cup mul_new_keys(a, OneOf(new(b, "OneElement")))
      [] rule = "add_Element_Element" ->
           IF equal(a, b) THEN mul_new_keys(Num(2), a)
           ELSE {new_key(a, "SumElement")}
      [] rule = "add_Zero_object" ->
           IF b.v = 0 THEN {}
           ELSE IF b.v = 1 THEN {new_key(a, "OneElement")}
           ELSE {new_key(a, "ScaledElement"), new_key(a, "OneElement")}
      [] rule = "add_object_Zero" ->
           IF a.v = 0 THEN {}
           ELSE IF a.v = 1 THEN {new_key(b, "OneElement")}
           ELSE {new_key(b, "ScaledElement"), new_key(b, "OneElement")}
      [] rule = "add_Scaled_Element" ->
           IF equal(a.e, b) THEN mul_new_keys(Num(a.scale + 1), b)
           ELSE {new_key(a, "SumElement")}
      [] rule = "add_Element_Scaled" ->
           IF equal(a, b.e) THEN mul_new_keys(Num(b.scale + 1), a)
           ELSE {new_key(a, "SumElement")}
      [] rule = "add_Scaled_Scaled" ->
           IF equal(a.e, b.e) THEN mul_new_keys(Num(a.scale + b.scale), a.e)
           ELSE {new_key(a, "SumElement")}
      [] OTHER -> {}

add_new_keys(a, b) ==
    IF IsErr(a) \/ IsErr(b) THEN {}
    ELSE add_keys_method(loaded.add_dispatch[a.role, b.role], a, b)

(* The cache after new was called on these keys: a miss that resolves      *)
(* writes its entry, a hit and a failed resolution write nothing.          *)
cache_after(cache, keys) ==
    [k \in DOMAIN cache \cup {kk \in keys : ~IsErr(new(kk[1], kk[2]))} |->
        IF k \in DOMAIN cache THEN cache[k] ELSE new(k[1], k[2])]

(***************************************************************************)
(* The structural queries: num_terms/term and num_factors/factor.          *)
(***************************************************************************)
IndexError == Err("IndexError")

RECURSIVE num_terms(_)
num_terms(e) ==
    IF e.role = "SumElement" THEN num_terms(e.e1) + num_terms(e.e2) ELSE 1

RECURSIVE term(_, _)
Element_term(e, i) == IF i = 0 THEN e ELSE IndexError

(* A term lookup that is off by one at the boundary of the left child. *)
SumElement_term_off_by_one(e, i) ==
    IF i >= num_terms(e) THEN IndexError
    ELSE IF i <= num_terms(e.e1) THEN term(e.e1, i)
    ELSE term(e.e2, i - num_terms(e.e1))

SumElement_term(e, i) ==
    IF i >= num_terms(e) THEN IndexError
    ELSE IF i < num_terms(e.e1) THEN term(e.e1, i)
    ELSE term(e.e2, i - num_terms(e.e1))

term(e, i) == IF e.role = "SumElement" THEN SumElement_term(e, i) ELSE Element_term(e, i)

RECURSIVE num_factors(_)
num_factors(e) ==
    CASE e.role = "ScaledElement" -> num_factors(e.e) + 1
      [] e.role = "ProductElement" -> num_factors(e.e1) + num_factors(e.e2)
      [] OTHER -> 1

RECURSIVE factor(_, _)
Element_factor(e, i) == IF i = 0 THEN e ELSE IndexError

ScaledElement_factor(e, i) ==
    IF i >= num_factors(e) THEN IndexError
    ELSE IF i = 0 THEN Num(e.scale) ELSE factor(e.e, i - 1)

ProductElement_factor(e, i) ==
    IF i >= num_factors(e) THEN IndexError
    ELSE IF i < num_factors(e.e1) THEN factor(e.e1, i)
    ELSE factor(e.e2, i - num_factors(e.e1))

factor(e, i) ==
    CASE e.role = "ScaledElement" -> ScaledElement_factor(e, i)
      [] e.role = "ProductElement" -> ProductElement_factor(e, i)
      [] OTHER -> Element_factor(e, i)

(***************************************************************************)
(* Pretty printing with minimal parentheses.                               *)
(***************************************************************************)
PrinterTypes == {"Opaque", "OneElement", "ZeroElement", "ScaledElement",
                 "ProductElement", "SumElement", "WrappedElement", "JoinElement"}

need_parens_dispatch ==
    [te \in PrinterTypes, tp \in PrinterTypes |-> Resolve(need_parens_registry, te, tp)]

(* need_parens without the method for a Scaled child of a Product. *)
need_parens_unpatched(te, tp) ==
    Resolve(need_parens_registry
                \ {Sig({"ScaledElement"}, {"ProductElement"}, 0, "no_parens")}, te, tp) = "parens"

(* need_parens on the types of an element and of its parent. *)
need_parens(te, tp) == need_parens_dispatch[te, tp] = "parens"

(* str of an element that is neither Wrapped nor Join. *)
Element_str(el) ==
    CASE el.role = "OneElement" -> "1"
      [] el.role = "ZeroElement" -> "0"
      [] OTHER -> el.name \o "()"

ScaledElement_display(el, e) == ToString(el.scale) \o " * " \o e
ProductElement_display(el, e1, e2) == e1 \o " * " \o e2
SumElement_display(el, e1, e2) == e1 \o " + " \o e2

RECURSIVE pretty_print(_)
pretty_print_in(el, parent) ==
    IF need_parens(el.role, parent.role)
    THEN "(" \o pretty_print(el) \o ")"
    ELSE pretty_print(el)

pretty_print(el) ==
    CASE el.role = "ScaledElement" ->
            ScaledElement_display(el, pretty_print_in(el.e, el))
      [] el.role = "ProductElement" ->
            ProductElement_display(el, pretty_print_in(el.e1, el), pretty_print_in(el.e2, el))
      [] el.role = "SumElement" ->
            SumElement_display(el, pretty_print_in(el.e1, el), pretty_print_in(el.e2, el))
      [] OTHER -> Element_str(el)

(***************************************************************************)
(* Measures of an element, used to bound the model.                        *)
(***************************************************************************)
Abs(n) == IF n < 0 THEN -n ELSE n

RECURSIVE BigScale(_)
BigScale(e) ==
    CASE e.role = "ScaledElement" -> Abs(e.scale) > MaxScale \/ BigScale(e.e)
      [] e.role \in {"SumElement", "ProductElement"} -> BigScale(e.e1) \/ BigScale(e.e2)
      [] OTHER -> FALSE

Max(m, n) == IF m < n THEN n ELSE m

RECURSIVE Depth(_)
Depth(e) ==
    CASE e.role = "ScaledElement" -> 1 + Depth(e.e)
      [] e.role \in {"SumElement", "ProductElement"} -> 1 + Max(Depth(e.e1), Depth(e.e2))
      [] OTHER -> 1

TooBig(r) == ~IsErr(r) /\ (BigScale(r) \/ Depth(r) > MaxDepth)

(***************************************************************************)
(* What a caller passes in: scalars, the opaque elements and the One of a  *)
(* field, and elements it scaled before.                                   *)
(***************************************************************************)
Scalars == {0, 1, 2}
k1 == Opaque("K", "k1")
k2 == Opaque("K", "k2")
m1 == Opaque("M", "m1")
Atoms == {k1, k2, m1}
ScaledBefore == {<<Num(-1), k1>>}
Inputs == Atoms \cup {OneOf(Concrete("OneElement", "K"))}
          \cup {mul(cb[1], cb[2]) : cb \in ScaledBefore}

(***************************************************************************)
(* The operators of Element.  The caller holds an element x and applies    *)
(* an operator to it and an input of the same field (or to x and itself);  *)
(* x becomes the result.  call records the last application of mul or      *)
(* add; a raised exception leaves x as it was.                             *)
(***************************************************************************)
Operands == {ab \in {<<x, i>> : i \in Inputs \cup {x}} \cup {<<i, x>> : i \in Inputs} :
                get_field(ab[1]) = get_field(ab[2])}

Return(op, a, b, r, keys) ==
    /\ calls < MaxCalls
    /\ calls' = calls + 1
    /\ ~TooBig(r)
    /\ call' = [op |-> op, a |-> a, b |-> b, res |-> r]
    /\ x' = IF IsErr(r) THEN x ELSE r
    /\ new_cache' = cache_after(new_cache, keys)
    /\ UNCHANGED <<pc, key, cand, ret, done, loaded>>

(* Element.__mul__ on two elements *)
Mul == \E ab \in Operands : Return("mul", ab[1], ab[2], mul(ab[1], ab[2]), mul_new_keys(ab[1], ab[2]))

(* Element.__mul__ with a scalar on the right *)
MulScalar == \E c \in Scalars : Return("mul", x, Num(c), mul(x, Num(c)), mul_new_keys(x, Num(c)))

(* Element.__rmul__ *)
RMul == \E c \in Scalars : Return("mul", Num(c), x, mul(Num(c), x), mul_new_keys(Num(c), x))

(* Element.__add__ on two elements *)
Add == \E ab \in Operands : Return("add", ab[1], ab[2], add(ab[1], ab[2]), add_new_keys(ab[1], ab[2]))

(* Element.__add__ with a scalar on the right *)
AddScalar == \E c \in Scalars : Return("add", x, Num(c), add(x, Num(c)), add_new_keys(x, Num(c)))

(* Element.__radd__ *)
RAdd == \E c \in Scalars : Return("add", Num(c), x, add(Num(c), x), add_new_keys(Num(c), x))

(* Element.__neg__ *)
Neg == Return("mul", Num(-1), x, mul(Num(-1), x), mul_new_keys(Num(-1), x))

(* Element.__sub__: add(self, -other), -other being other.__neg__() *)
Sub == \E ab \in Operands :
          LET nb == mul(Num(-1), ab[2])
          IN  Return("add", ab[1], nb, add(ab[1], nb),
                     mul_new_keys(Num(-1), ab[2]) \cup add_new_keys(ab[1], nb))

(* Element.__sub__ with a scalar on the right: add(self, -c) *)
SubScalar == \E c \in Scalars : Return("add", x, Num(-c), add(x, Num(-c)), add_new_keys(x, Num(-c)))

(* Element.__rsub__: add(other, -self) *)
RSub == \E c \in Scalars :
          LET nb == mul(Num(-1), x)
          IN  Return("add", Num(c), nb, add(Num(c), nb),
                     mul_new_keys(Num(-1), x) \cup add_new_keys(Num(c), nb))

NoCall == [op |-> "none", a |-> Num(0), b |-> Num(0), res |-> Num(0)]

(* What loading the module and the fields leaves behind: the methods that  *)
(* dispatch resolves, get_field per class and the subclasses of the field  *)
(* and role classes.                                                       *)
Loaded ==
    [mul_dispatch |-> mul_dispatch, add_dispatch |-> add_dispatch,
     equal_dispatch |-> equal_dispatch, field_of |-> field_of,
     subclasses_of_field |-> subclasses_of_field,
     subclasses_of_role |-> subclasses_of_role]

Init ==
    /\ loaded = Loaded
    /\ x \in Inputs
    /\ call = NoCall
    /\ calls = 0
    /\ new_cache = cache_after(<<>>, UNION {mul_new_keys(cb[1], cb[2]) : cb \in ScaledBefore})
    /\ pc = <<>>
    /\ key = <<>>
    /\ cand = <<>>
    /\ ret = <<>>
    /\ done = <<>>

Next == Mul \/ MulScalar \/ RMul \/ Add \/ AddScalar \/ RAdd \/ Neg \/ Sub
        \/ SubScalar \/ RSub

Spec == Init /\ [][Next]_vars

(***************************************************************************)
(* new and its cache under threads.  Each thread calls new(a, t) for an    *)
(* instance a and a role t, one statement at a time: the cache lookup,     *)
(* on a miss get_field and the candidates, the cache write, and the        *)
(* return of the cached entry.                                             *)
(***************************************************************************)
Threads == {"t1", "t2"}
Instances == {Class("Opaque", "K", "k1"), Concrete("ScaledElement", "K"),
              Class("Opaque", "P", "p1"), Class("Opaque", "-", "orphan")}
NewRoles == {"ZeroElement", "SumElement"}
NoValue == Err("none")

(* The cache with new_cache[k] = v set. *)
cache_store(cache, k, v) ==
    [kk \in DOMAIN cache \cup {k} |-> IF kk = k THEN v ELSE cache[kk]]

InitNew ==
    /\ loaded = Loaded
    /\ x = k1
    /\ call = NoCall
    /\ calls = 0
    /\ new_cache = <<>>
    /\ pc = [t \in Threads |-> "idle"]
    /\ key = [t \in Threads |-> <<k1, "ZeroElement">>]
    /\ cand = [t \in Threads |-> {}]
    /\ ret = [t \in Threads |-> NoValue]
    /\ done = [t \in Threads |-> 0]

(* A thread enters new(a, t). *)
NewCall(t) ==
    /\ pc[t] = "idle"
    /\ done[t] < MaxNewCalls
    /\ \E a \in Instances, r \in NewRoles : key' = [key EXCEPT ![t] = <<TypeOf(a), r>>]
    /\ pc' = [pc EXCEPT ![t] = "lookup"]
    /\ ret' = [ret EXCEPT ![t] = NoValue]
    /\ UNCHANGED <<loaded, x, call, calls, new_cache, cand, done>>

(* try: return new_cache[type(a), t]; a KeyError goes on to the miss. *)
NewLookup(t) ==
    /\ pc[t] = "lookup"
    /\ IF key[t] \in DOMAIN new_cache
       THEN /\ ret' = [ret EXCEPT ![t] = new_cache[key[t]]]
            /\ pc' = [pc EXCEPT ![t] = "idle"]
            /\ done' = [done EXCEPT ![t] = @ + 1]
       ELSE /\ pc' = [pc EXCEPT ![t] = "resolve"]
            /\ UNCHANGED <<ret, done>>
    /\ UNCHANGED <<loaded, x, call, calls, new_cache, key, cand>>

(* get_field, the candidates and the check that there is a single one. *)
NewResolve(t) ==
    /\ pc[t] = "resolve"
    /\ LET field == get_field(key[t][1])
           candidates == IF IsErr(field) THEN {} ELSE new_candidates(field, key[t][2])
       IN  IF IsErr(field) \/ ~single_candidate(candidates)
           THEN /\ ret' = [ret EXCEPT ![t] = Err("RuntimeError")]
                /\ pc' = [pc EXCEPT ![t] = "idle"]
                /\ done' = [done EXCEPT ![t] = @ + 1]
                /\ UNCHANGED cand
           ELSE /\ cand' = [cand EXCEPT ![t] = candidates]
                /\ pc' = [pc EXCEPT ![t] = "store"]
                /\ UNCHANGED <<ret, done>>
    /\ UNCHANGED <<loaded, x, call, calls, new_cache, key>>

(* new_cache[type(a), t] = candidates[0] *)
NewStore(t) ==
    /\ pc[t] = "store"
    /\ \E c \in cand[t] : new_cache' = cache_store(new_cache, key[t], c)
    /\ pc' = [pc EXCEPT ![t] = "return"]
    /\ UNCHANGED <<loaded, x, call, calls, key, cand, ret, done>>

(* return new_cache[type(a), t] *)
NewReturn(t) ==
    /\ pc[t] = "return"
    /\ ret' = [ret EXCEPT ![t] = new_cache[key[t]]]
    /\ pc' = [pc EXCEPT ![t] = "idle"]
    /\ done' = [done EXCEPT ![t] = @ + 1]
    /\ UNCHANGED <<loaded, x, call, calls, new_cache, key, cand>>

NextNew == \E t \in Threads :
    NewCall(t) \/ NewLookup(t) \/ NewResolve(t) \/ NewStore(t) \/ NewReturn(t)

SpecNew == InitNew /\ [][NextNew]_vars

(***************************************************************************)
(* Properties.                                                             *)
(***************************************************************************)
RECURSIVE Nodes(_)
Nodes(e) ==
    CASE e.role = "ScaledElement" -> {e} \cup Nodes(e.e)
      [] e.role \in {"SumElement", "ProductElement"} -> {e} \cup Nodes(e.e1) \cup Nodes(e.e2)
      [] OTHER -> {e}

Called(op) == call.op = op /\ ~IsErr(call.res)
ElementCall(op) == Called(op) /\ IsElement(call.a) /\ IsElement(call.b)
IsJoin(e) == e.role \in {"SumElement", "ProductElement"}
Children(n) == IF IsJoin(n) THEN {n.e1, n.e2} ELSE IF n.role = "ScaledElement" THEN {n.e} ELSE {}

Redundant(n) ==
    \/ n.role = "ScaledElement" /\ n.scale \in {0, 1}
    \/ n.role = "ProductElement"
         /\ \E c \in Children(n) : c.role \in {"ZeroElement", "OneElement"}
    \/ n.role = "SumElement" /\ \E c \in Children(n) : c.role = "ZeroElement"

(* C1: no element that mul or add returns holds, at any depth, a node      *)
(* Scaled(e, 1), Scaled(e, 0), a Product with a Zero or One child, or a    *)
(* Sum with a Zero child.                                                  *)
C1_NormalForm ==
    (Called("mul") \/ Called("add")) => \A n \in Nodes(call.res) : ~Redundant(n)

(* C2: mul(a, 1) and mul(1, a) return a, add(a, 0) and add(0, a) return a, *)
(* and mul(a, 0) and mul(0, a) return the Zero of a's field, printed "0".  *)
IsZeroOfField(r, a) == r = [role |-> "ZeroElement", f |-> a.f] /\ pretty_print(r) = "0"

C2_ScalarIdentity ==
    /\ call.op = "mul" /\ IsElement(call.a) /\ call.b = Num(1) => call.res = call.a
    /\ call.op = "mul" /\ call.a = Num(1) /\ IsElement(call.b) => call.res = call.b
    /\ call.op = "add" /\ IsElement(call.a) /\ call.b = Num(0) => call.res = call.a
    /\ call.op = "add" /\ call.a = Num(0) /\ IsElement(call.b) => call.res = call.b
    /\ call.op = "mul" /\ IsElement(call.a) /\ call.b = Num(0)
          => IsZeroOfField(call.res, call.a)
    /\ call.op = "mul" /\ call.a = Num(0) /\ IsElement(call.b)
          => IsZeroOfField(call.res, call.b)

(* C3: add and mul commute under equal: add(a, b) and add(b, a) are the    *)
(* same element or equal, and so are mul(a, b) and mul(b, a), for all      *)
(* elements a and b.                                                       *)
Same(r, s) == r = s \/ equal(r, s)

C3_Commutative ==
    /\ ElementCall("add") => Same(call.res, add(call.b, call.a))
    /\ ElementCall("mul") => Same(call.res, mul(call.b, call.a))

(* C4: the result of add or mul is a fixed point: rebuilding it from its   *)
(* own children with the same rules gives an element of the same shape     *)
(* that is the same element or equal to it.                                *)
Rebuild(r) ==
    CASE r.role = "ScaledElement" -> mul(Num(r.scale), r.e)
      [] r.role = "SumElement" -> add(r.e1, r.e2)
      [] r.role = "ProductElement" -> mul(r.e1, r.e2)
      [] OTHER -> r

C4_FixedPoint ==
    (Called("mul") \/ Called("add")) =>
        /\ Rebuild(call.res).role = call.res.role
        /\ Same(Rebuild(call.res), call.res)

(* C5: mul with a Zero operand returns that Zero, mul of One and an        *)
(* element returns the element, and no such call raises: each resolves to  *)
(* exactly one rule.                                                       *)
IsZero(e) == e.role = "ZeroElement"
IsOne(e) == e.role = "OneElement"

C5_ShortCircuit ==
    call.op = "mul" =>
        /\ IsZero(call.a) /\ ~IsZero(call.b) => call.res = call.a
        /\ IsZero(call.b) /\ ~IsZero(call.a) => call.res = call.b
        /\ IsZero(call.a) /\ IsZero(call.b) => call.res \in {call.a, call.b}
        /\ IsOne(call.a) /\ IsElement(call.b) /\ ~IsOne(call.b) => call.res = call.b
        /\ IsOne(call.b) /\ IsElement(call.a) /\ ~IsOne(call.a) => call.res = call.a
        /\ IsOne(call.a) /\ IsOne(call.b) => call.res \in {call.a, call.b}

(* C6: add merges scaled terms whose bases are equal: the result is the    *)
(* base scaled by the sum of the scales -- the base itself when the sum    *)
(* is 1, the Zero of its field when it is 0 -- and never a Sum.            *)
Merged(r, base, scale) ==
    IF scale = 0 THEN r = [role |-> "ZeroElement", f |-> base.f]
    ELSE IF scale = 1 THEN r = base
    ELSE r = [role |-> "ScaledElement", f |-> base.f, e |-> base, scale |-> scale]

BothScaled == call.a.role = "ScaledElement" /\ call.b.role = "ScaledElement"
                /\ equal(call.a.e, call.b.e)
LeftScaled == call.a.role = "ScaledElement" /\ call.b.role # "ScaledElement"
                /\ IsElement(call.b) /\ equal(call.a.e, call.b)
RightScaled == call.b.role = "ScaledElement" /\ call.a.role # "ScaledElement"
                /\ IsElement(call.a) /\ equal(call.a, call.b.e)

C6_MergeScaled ==
    call.op = "add" =>
        /\ BothScaled => Merged(call.res, call.a.e, call.a.scale + call.b.scale)
        /\ LeftScaled => Merged(call.res, call.b, call.a.scale + 1)
        /\ RightScaled => Merged(call.res, call.a, call.b.scale + 1)

C6_Witness ==
    /\ call.op = "add" /\ BothScaled
    /\ call.a.scale = 2 /\ call.b.scale = 2 /\ call.res.role = "ScaledElement"
    /\ call.res.scale = 4 /\ call.res.e = call.a.e

(* C7: in a Product a child is printed in parentheses iff it is a Sum or   *)
(* a Wrapped element, Scaled included; in a Sum no child is.               *)
Parenthesized(c, n) == pretty_print_in(c, n) = "(" \o pretty_print(c) \o ")"
IsWrapped(c) == "WrappedElement" \in Supers(c.role)

C7_ParensScaledIncluded ==
    \A n \in Nodes(x) :
        /\ n.role = "ProductElement" =>
              \A c \in Children(n) :
                  Parenthesized(c, n) <=> (c.role = "SumElement" \/ IsWrapped(c))
        /\ n.role = "SumElement" => \A c \in Children(n) : ~Parenthesized(c, n)

(* C7, amended: in a Product a child is printed in parentheses iff it is   *)
(* a Sum or a Wrapped element that is not a Scaled element; in a Sum no    *)
(* child is.                                                               *)
C7_MinimalParens ==
    /\ \A n \in Nodes(x) :
          /\ n.role = "ProductElement" =>
                \A c \in Children(n) :
                    Parenthesized(c, n) <=>
                        (c.role = "SumElement" \/ (IsWrapped(c) /\ c.role # "ScaledElement"))
          /\ n.role = "SumElement" => \A c \in Children(n) : ~Parenthesized(c, n)
    /\ \A te \in PrinterTypes :
          /\ need_parens(te, "ProductElement") <=>
                (te = "SumElement" \/ ("WrappedElement" \in Supers(te) /\ te # "ScaledElement"))
          /\ ~need_parens(te, "SumElement")
    /\ x = mul(add(k1, k2), k1) => pretty_print(x) = "(k1() + k2()) * k1()"
    /\ x = add(mul(k1, k2), k1) => pretty_print(x) = "k1() * k2() + k1()"

C7_Witness ==
    /\ Called("mul") /\ x = call.res /\ x.role = "ProductElement"
    /\ x.e1.role = "SumElement" /\ Parenthesized(x.e1, x)

(* C8: equal(Sum(a, b), Sum(b, a)) and equal(Product(a, b), Product(b, a)) *)
(* for all elements a and b; two Sums or two Products are equal iff their  *)
(* children are equal pairwise, straight or crossed; two primitives are    *)
(* equal iff they have the same type; other pairs of roles are unequal.    *)
Pool == {x} \cup Children(x) \cup {OneOf(Concrete("OneElement", "K")), ZeroOf(Concrete("ZeroElement", "K")),
                        ZeroOf(Concrete("ZeroElement", "M"))}
IsPrimitive(e) == e.role \in {"ZeroElement", "OneElement"}
SumK(a, b) == SumOf(Concrete("SumElement", "K"), a, b)
ProductK(a, b) == ProductOf(Concrete("ProductElement", "K"), a, b)

EqualByRole(a, b) ==
    equal(a, b) <=>
        CASE a.role = b.role /\ IsJoin(a) ->
                \/ equal(a.e1, b.e1) /\ equal(a.e2, b.e2)
                \/ equal(a.e1, b.e2) /\ equal(a.e2, b.e1)
          [] IsPrimitive(a) /\ IsPrimitive(b) -> TypeOf(a) = TypeOf(b)
          [] a.role = "Opaque" /\ b.role = "Opaque" -> a = b
          [] OTHER -> FALSE

JoinsCommute(a, b) == equal(SumK(a, b), SumK(b, a)) /\ equal(ProductK(a, b), ProductK(b, a))

RECURSIVE Terms(_)
Terms(e) == IF e.role = "SumElement" THEN Terms(e.e1) \o Terms(e.e2) ELSE <<e>>

RECURSIVE Factors(_)
Factors(e) ==
    CASE e.role = "ScaledElement" -> <<Num(e.scale)>> \o Factors(e.e)
      [] e.role = "ProductElement" -> Factors(e.e1) \o Factors(e.e2)
      [] OTHER -> <<e>>

At(seq, i) == IF 0 <= i /\ i < Len(seq) THEN seq[i + 1] ELSE IndexError

C9_TermsAndFactors ==
    \A t \in Nodes(x) :
        LET terms == Terms(t)
            factors == Factors(t)
        IN  /\ num_terms(t) = Len(terms)
            /\ num_factors(t) = Len(factors)
            /\ \A i \in -2 .. Len(terms) + 1 : term(t, i) = At(terms, i)
            /\ \A i \in -2 .. Len(factors) + 1 : factor(t, i) = At(factors, i)

C9_Witness ==
    /\ x.role = "SumElement" /\ num_terms(x) = 3 /\ term(x, 2) = x.e2
    /\ term(x, 3) = IndexError /\ term(x, -1) = IndexError
    /\ x.e2.role = "ScaledElement" /\ factor(x.e2, 0) = Num(x.e2.scale)

(* C10: under every interleaving of the threads' calls of new, each cache  *)
(* entry holds the one type that is both of the field of its key's type    *)
(* and of its key's role; a call that returned a type returned the entry   *)
(* of its key, so calls with one key return one type; a failed call is one *)
(* whose key has no such single type, it has no entry and never reaches    *)
(* the cache write; and a step changes no entry, removes none, and writes  *)
(* the cache only at the cache write of a call that resolved.              *)
Resolves(k) ==
    /\ ~IsErr(get_field(k[1]))
    /\ Cardinality(new_candidates(get_field(k[1]), k[2])) = 1

Returned(t) == pc[t] = "idle" /\ done[t] > 0

CacheSound ==
    \A k \in DOMAIN new_cache :
        Resolves(k) /\ new_candidates(get_field(k[1]), k[2]) = {new_cache[k]}

ReturnsEntry ==
    \A t \in Threads :
        Returned(t) /\ ~IsErr(ret[t]) =>
            key[t] \in DOMAIN new_cache /\ ret[t] = new_cache[key[t]]

FailsAside ==
    \A t \in Threads :
        /\ Returned(t) /\ IsErr(ret[t]) =>
              ret[t] = Err("RuntimeError") /\ ~Resolves(key[t])
                /\ key[t] \notin DOMAIN new_cache
        /\ pc[t] \in {"store", "return"} => Resolves(key[t])

EntriesKept ==
    \A k \in DOMAIN new_cache : k \in DOMAIN new_cache' /\ new_cache'[k] = new_cache[k]

WritesAtStore ==
    new_cache' # new_cache =>
        \E t \in Threads : pc[t] = "store" /\ pc'[t] = "return" /\ Resolves(key[t])

C10_CacheStable ==
    /\ [](CacheSound /\ ReturnsEntry /\ FailsAside)
    /\ [][EntriesKept /\ WritesAtStore]_vars

C10_Witness ==
    /\ pc["t1"] = "return" /\ pc["t2"] = "return"
    /\ key["t1"] = key["t2"] /\ key["t1"] \in DOMAIN new_cache
    /\ new_cache[key["t1"]] = Concrete("ZeroElement", "K")

====
